---- MODULE Spec2Model ----
(***************************************************************************)
(* chatvault: the dual-store persistence protocol of src/main.py on top of *)
(* the SQLite writer (src/storage/db_writer.py) and the PostgreSQL writer  *)
(* (src/storage/db_pg_writer.py).                                          *)
(*                                                                         *)
(* Python values are modelled by their repr as strings: None is "None",    *)
(* True is "True", the integer 101 is "101".  A Python dict is a TLA+      *)
(* record; a key the dict lacks is a field outside its DOMAIN.  Values the *)
(* PostgreSQL writer converts before binding carry the SQL type as prefix. *)
(***************************************************************************)
EXTENDS Integers, Sequences, FiniteSets, TLC

\* ------------------------------------------------------------------ bounds
MaxChats == 2
MaxRows == 2
MaxRuns == 2
MaxFaults == 1
MaxCalls == 4

\* captioned tables of a document whose captions are read
MaxCaptions == 2

\* ------------------------------------------------------------ Python values
None == "None"

Stores == {"sqlite", "pg"}

\* dict.get(key): the value, or None when the key is missing
Get(d, k) == IF k \in DOMAIN d THEN d[k] ELSE None

\* dict.get(key, default)
GetOr(d, k, default) == IF k \in DOMAIN d THEN d[k] ELSE default

\* the texts of the id cells of the documents; U+00B2 is SUPERSCRIPT TWO,
\* U+0663 is ARABIC-INDIC DIGIT THREE
IdTexts == {"42", "43", "007", " 42 ", "abc", "abc123", "", "U+00B2", "U+0663"}

\* str.strip() on the id texts
strip(s) == IF s = " 42 " THEN "42" ELSE s

\* str.isdigit() on the id texts: every character is a digit (Unicode
\* Numeric_Type Digit or Decimal) and there is at least one
DigitTexts == {"42", "43", "007", "U+00B2", "U+0663"}

isdigit(s) == s \in DigitTexts

\* str.isdecimal(): every character is a decimal digit (category Nd)
isdecimal(s) == s \in {"42", "43", "007", "U+0663"}

\* int(s), the value written as its decimal numeral; only whitespace around
\* decimal digits is accepted
int(s) ==
    CASE s \in {"42", " 42 "} -> "42"
      [] s = "43" -> "43"
      [] s = "007" -> "7"
      [] s = "U+0663" -> "3"
      [] OTHER -> "ValueError"

\* ------------------------------------------------- conversions of the writers
\* date.fromisoformat on the date-only texts parse_datetime(date_only) returns
IsoDates == {"2023-03-01"}

\* mutant: every date text is taken for invalid
parse_iso_date_none(datestr) == None

parse_iso_date(datestr) ==
    IF datestr = None THEN None
    ELSE IF datestr \in IsoDates THEN "DATE " \o datestr
    ELSE None

\* datetime.fromisoformat(ts.replace("Z", "+00:00")) on canonical UTC texts
IsoInstants == {"2023-03-01T10:00:00Z"}

parse_timestamp(ts) ==
    IF ts = None THEN None
    ELSE IF ts \in IsoInstants THEN "TIMESTAMPTZ " \o ts
    ELSE None

\* json.dumps(value, ensure_ascii=False): the JSON text
json_dumps(v) == IF v = None THEN "null" ELSE v

\* psycopg2.extras.Json(value): the value bound as JSONB
Json(v) == "JSONB " \o json_dumps(v)

\* ------------------------------------------------------------------ stores
\* One database: the tables of ensure_tables and the two id sequences.
EmptyDB == [schema |-> FALSE, chats |-> {}, messages |-> {},
            chat_seq |-> 0, msg_seq |-> 0, origin |-> {}]

\* CREATE TABLE IF NOT EXISTS chats / messages, CREATE UNIQUE INDEX
ensure_tables(db) == [db EXCEPT !.schema = TRUE]

ChatRow(id, v) ==
    [id |-> id, slug |-> v[1], chat_id |-> v[2], type |-> v[3],
     name |-> v[4], link |-> v[5], joined |-> v[6], is_active |-> v[7],
     is_member |-> v[8], is_public |-> v[9], notes |-> v[10]]

\* mutant: a plain INSERT on a table whose slug is not unique
UpsertChat_insert(db, v) ==
    [db EXCEPT !.chats = @ \cup {ChatRow(db.chat_seq + 1, v)},
               !.chat_seq = db.chat_seq + 1]

\* mutant: ON CONFLICT(slug) DO NOTHING
UpsertChat_nothing(db, v) ==
    IF \E r \in db.chats : r.slug = v[1]
    THEN [db EXCEPT !.chat_seq = db.chat_seq + 1]
    ELSE [db EXCEPT !.chats = @ \cup {ChatRow(db.chat_seq + 1, v)},
                    !.chat_seq = db.chat_seq + 1]

\* INSERT INTO chats ... ON CONFLICT(slug) DO UPDATE SET <all non-key fields>.
\* The id column draws from the sequence on every execution, also when the
\* conflict turns the insert into an update.
UpsertChat(db, v) ==
    LET id == db.chat_seq + 1
        old == {r \in db.chats : r.slug = v[1]}
    IN  IF old = {}
        THEN [db EXCEPT !.chats = @ \cup {ChatRow(id, v)}, !.chat_seq = id]
        ELSE [db EXCEPT !.chats = {IF r.slug = v[1] THEN ChatRow(r.id, v)
                                   ELSE r : r \in db.chats},
                        !.chat_seq = id]

\* mutant: the check for another owner of the chat_id is left out
ChatIdClaimed_never(db, chat_id, slug) == FALSE

\* SELECT 1 FROM chats WHERE chat_id = ? AND slug != ? LIMIT 1
ChatIdClaimed(db, chat_id, slug) ==
    \E r \in db.chats : r.chat_id = chat_id /\ r.slug # slug

Result(exc, db) == [exc |-> exc, db |-> db]

\* storage/db_writer.py insert_chat
insert_sqlite_chat(db, chat) ==
    LET slug == Get(chat, "slug")
        chat_id == Get(chat, "chat_id")
    IN  IF slug = None \/ slug = "" THEN Result("ValueError", db)
        ELSE IF ~db.schema THEN Result("DatabaseError", db)
        ELSE IF chat_id # None /\ ChatIdClaimed(db, chat_id, slug)
             THEN Result("ValueError", db)
        ELSE Result("none",
                    UpsertChat(db, <<chat.slug, Get(chat, "chat_id"),
                        Get(chat, "type"), Get(chat, "name"),
                        Get(chat, "link"), Get(chat, "joined"),
                        Get(chat, "is_active"), Get(chat, "is_member"),
                        Get(chat, "is_public"), Get(chat, "notes")>>))

\* the keys insert_chat of the PostgreSQL writer subscripts (chat["..."])
PgRequiredKeys == {"slug", "chat_id", "type", "name",
                   "is_active", "is_member", "is_public"}

\* storage/db_pg_writer.py insert_chat
insert_pg_chat(db, chat) ==
    LET slug == Get(chat, "slug")
        chat_id == Get(chat, "chat_id")
    IN  IF slug = None \/ slug = "" THEN Result("ValueError", db)
        ELSE IF chat_id # None /\ ~db.schema THEN Result("DatabaseError", db)
        ELSE IF chat_id # None /\ ChatIdClaimed(db, chat_id, slug)
             THEN Result("ValueError", db)
        ELSE IF ~(PgRequiredKeys \subseteq DOMAIN chat)
             THEN Result("KeyError", db)
        ELSE IF ~db.schema THEN Result("DatabaseError", db)
        ELSE Result("none",
                    UpsertChat(db, <<chat.slug, chat.chat_id, chat.type,
                        chat.name, Get(chat, "link"),
                        parse_iso_date(Get(chat, "joined")),
                        chat.is_active, chat.is_member, chat.is_public,
                        Get(chat, "notes")>>))

\* mutant: SELECT id FROM chats LIMIT 1, the WHERE clause left out
get_chat_id_by_slug_any(db, slug) ==
    IF db.chats # {}
    THEN (CHOOSE r \in db.chats : \A o \in db.chats : r.id <= o.id).id
    ELSE 0

\* SELECT id FROM chats WHERE slug = ?  (0 stands for "no row": ValueError)
get_chat_id_by_slug(db, slug) ==
    IF \E r \in db.chats : r.slug = slug
    THEN (CHOOSE r \in db.chats : r.slug = slug).id
    ELSE 0

MsgRow(id, v) ==
    [id |-> id, msg_id |-> v[1], chat_ref_id |-> v[2], timestamp |-> v[3],
     link |-> v[4], text |-> v[5], media |-> v[6], screenshot |-> v[7],
     tags |-> v[8], notes |-> v[9]]

\* mutant: the check for a stored (chat_ref_id, msg_id) is left out
MessageExists_never(db, chat_ref_id, msg_id) == FALSE

\* SELECT 1 FROM messages WHERE chat_ref_id = ? AND msg_id = ? LIMIT 1
MessageExists(db, chat_ref_id, msg_id) ==
    \E r \in db.messages : r.chat_ref_id = chat_ref_id /\ r.msg_id = msg_id

\* INSERT INTO messages (...) VALUES (...)
InsertMessageRow(db, v, chat_slug) ==
    LET id == db.msg_seq + 1
    IN  [db EXCEPT !.messages = @ \cup {MsgRow(id, v)}, !.msg_seq = id,
                   !.origin = @ \cup {<<id, chat_slug>>}]

\* storage/db_writer.py insert_message (foreign keys are not enforced:
\* enable_foreign_keys is never called on the connection of main)
insert_sqlite_message(db, msg, chat_ref_id) ==
    LET msg_id == Get(msg, "msg_id")
        timestamp == Get(msg, "timestamp")
        media_json == json_dumps(GetOr(msg, "media", "[]"))
        tags_json == json_dumps(GetOr(msg, "tags", "[]"))
    IN  IF ~db.schema THEN Result("DatabaseError", db)
        ELSE IF msg_id # None /\ MessageExists(db, chat_ref_id, msg_id)
             THEN Result("none", db)
        ELSE Result("none",
                    InsertMessageRow(db, <<msg_id, chat_ref_id, timestamp,
                        Get(msg, "link"), Get(msg, "text"), media_json,
                        Get(msg, "screenshot"), tags_json,
                        Get(msg, "notes")>>, Get(msg, "chat_slug")))

\* mutant: the existence check is made for a msg_id of None as well
insert_pg_message_dedup(db, msg, chat_ref_id) ==
    LET timestamp == parse_timestamp(Get(msg, "timestamp"))
        msg_id == Get(msg, "msg_id")
        media_json == Json(GetOr(msg, "media", "[]"))
        tags_json == Json(GetOr(msg, "tags", "[]"))
    IN  IF ~db.schema THEN Result("DatabaseError", db)
        ELSE IF MessageExists(db, chat_ref_id, msg_id)
             THEN Result("none", db)
        ELSE IF ~(\E r \in db.chats : r.id = chat_ref_id)
             THEN Result("DatabaseError", db)
        ELSE Result("none",
                    InsertMessageRow(db, <<msg_id, chat_ref_id, timestamp,
                        Get(msg, "link"), Get(msg, "text"), media_json,
                        Get(msg, "screenshot"), tags_json,
                        Get(msg, "notes")>>, Get(msg, "chat_slug")))

\* storage/db_pg_writer.py insert_message (chat_ref_id REFERENCES chats(id))
insert_pg_message(db, msg, chat_ref_id) ==
    LET timestamp == parse_timestamp(Get(msg, "timestamp"))
        msg_id == Get(msg, "msg_id")
        media_json == Json(GetOr(msg, "media", "[]"))
        tags_json == Json(GetOr(msg, "tags", "[]"))
    IN  IF ~db.schema THEN Result("DatabaseError", db)
        ELSE IF msg_id # None /\ MessageExists(db, chat_ref_id, msg_id)
             THEN Result("none", db)
        ELSE IF ~(\E r \in db.chats : r.id = chat_ref_id)
             THEN Result("DatabaseError", db)
        ELSE Result("none",
                    InsertMessageRow(db, <<msg_id, chat_ref_id, timestamp,
                        Get(msg, "link"), Get(msg, "text"), media_json,
                        Get(msg, "screenshot"), tags_json,
                        Get(msg, "notes")>>, Get(msg, "chat_slug")))

\* ------------------------------------------------------- transactions
\* connection.commit(): the pending writes become durable
commit(db) == db

\* sqlite3 connection.rollback(): back to the durable state; the
\* sqlite_sequence table is rolled back with the rows
sqlite_rollback(pending, durable) == durable

\* psycopg2 connection.rollback(): back to the durable state, tables created
\* in the open transaction included; nextval() of a surviving SERIAL sequence
\* is never undone
pg_rollback(pending, durable) ==
    IF durable.schema
    THEN [durable EXCEPT !.chat_seq = pending.chat_seq,
                         !.msg_seq = pending.msg_seq]
    ELSE durable

\* mutant: the except clause does not roll back
rollback_forgotten(s, pending, durable) == pending

rollback(s, pending, durable) ==
    IF s = "sqlite" THEN sqlite_rollback(pending, durable)
    ELSE pg_rollback(pending, durable)

\* ------------------------------------------------------------- documents
Slugs == {"a", "b"}

\* slug and chat_id of the captioned tables: two conversations the operator
\* gives the same chat_id, and the first of them without chat_id
Captions == {<<"a", "101">>, <<"a", None>>, <<"b", "101">>}

Names == [a |-> "Alpha", b |-> "Beta"]

\* the id cell <td>own<a href=href>a_text</a></td>, or <td>own</td> when a is
\* FALSE; href is None when the <a> has no such attribute
IdCell(a, a_text, href, own) ==
    [a |-> a, a_text |-> a_text, href |-> href, own |-> own]

\* one <tr> of three cells: the id cell, date, body
Row(id_cell, date, text) ==
    [id_cell |-> id_cell, date |-> date, text |-> text]

RowKinds ==
    <<Row(IdCell(TRUE, "42", "https://t.me/c/1/42", ""),
          "01.03.2023 12:00:00", "hello"),
      Row(IdCell(FALSE, "", None, "abc"), "n/a", ""),
      Row(IdCell(TRUE, "42", "https://t.me/c/1/42", ""),
          "01.03.2023 12:00:00", "hello"),
      Row(IdCell(FALSE, "", None, "43"), "n/a", "bye")>>

Rows == {RowKinds[k] : k \in 1..Len(RowKinds)}

SeqsUpTo(S, n) == UNION {[1..k -> S] : k \in 0..n}

\* the tables of the documents: the first k rows of a table that holds a
\* numeric id, a non-numeric id, the first id again, another numeric id ...
Tables ==
    {[k \in 1..n |-> RowKinds[((k - 1) % Len(RowKinds)) + 1]] :
        n \in 0..MaxRows}

\* extractors/time_utils.py parse_datetime on the date cells of Rows
\* (Europe/Kyiv is UTC+2 on 2023-03-01)
parse_datetime(text) ==
    IF text = "01.03.2023 12:00:00" THEN "2023-03-01T10:00:00Z" ELSE None

\* id_cell.text: the text of the cell with the text of its <a>
CellText(id_cell) ==
    IF id_cell.a THEN id_cell.own \o id_cell.a_text ELSE id_cell.own

\* the conditional expression assigned to msg_id; "ValueError" when int
\* raises
row_msg_id(id_cell) ==
    IF id_cell.a /\ isdigit(strip(id_cell.a_text))
    THEN int(strip(id_cell.a_text))
    ELSE IF isdigit(strip(CellText(id_cell)))
         THEN int(strip(CellText(id_cell)))
    ELSE None

\* the conditional expression assigned to msg_link
msg_link(id_cell) ==
    IF id_cell.a /\ id_cell.href # None THEN id_cell.href ELSE None

\* the dict appended for one row
ExtractedMessage(row, chat_slug) ==
    [chat_slug |-> chat_slug,
     msg_id |-> row_msg_id(row.id_cell),
     timestamp |-> parse_datetime(row.date),
     link |-> msg_link(row.id_cell),
     text |-> IF row.text = "" THEN None ELSE row.text,
     media |-> None, screenshot |-> None, tags |-> "[]",
     notes |-> None]

\* extractors/message_extractor.py extract_messages, on a table none of
\* whose rows makes int raise
extract_messages(table, chat_slug) ==
    [k \in 1..Len(table) |-> ExtractedMessage(table[k], chat_slug)]

\* the dict extract_chats appends for one captioned table
ExtractedChat(slug, chat_id, table) ==
    [slug |-> slug, chat_id |-> chat_id, type |-> None,
     name |-> Names[slug], link |-> None,
     joined |-> IF slug = "a" THEN "2023-03-01" ELSE None,
     is_active |-> "True", is_member |-> "True", notes |-> None,
     table |-> table]

\* the chat dicts handed to insert_chat: those of extract_chats, and the same
\* dicts carrying the "is_public" key the PostgreSQL writer subscripts
ChatDicts(with_public, table) ==
    {IF with_public
     THEN ExtractedChat(k[1], k[2], table) @@ [is_public |-> "True"]
     ELSE ExtractedChat(k[1], k[2], table) : k \in Captions}

\* the documents: up to MaxChats captioned tables, all with the same rows
Documents ==
    UNION {SeqsUpTo(ChatDicts(p, t), MaxChats) : p \in BOOLEAN, t \in Tables}

\* ---------------------------------------------------------------- slugs
\* A text is a sequence of characters; a character outside ASCII is written
\* as its code point ("U+0427" is the Cyrillic capital Che).

\* the names of the captioned tables: "Alpha", "ALPHA", "!!!", "???",
\* U+0427 U+0430 U+0442 (the Ukrainian word for chat), "a b c d", U+00E9
CaptionNames ==
    {<<"A", "l", "p", "h", "a">>, <<"A", "L", "P", "H", "A">>,
     <<"!", "!", "!">>, <<"?", "?", "?">>,
     <<"U+0427", "U+0430", "U+0442">>,
     <<"a", " ", "b", " ", "c", " ", "d">>, <<"U+00E9">>}

\* U+041F U+0440 U+043E U+0454 U+043A U+0442, a space, U+0425: the
\* Ukrainian for "Project X"
ProjectX ==
    <<"U+041F", "U+0440", "U+043E", "U+0454", "U+043A", "U+0442", " ",
      "U+0425">>

\* the words of the marker of a caption
JoinedTheGroup ==
    <<"j", "o", "i", "n", "e", "d", " ", "t", "h", "e", " ", "g", "r", "o",
      "u", "p">>

\* a name followed by the marker and what is written after it
Joined(name, date) == name \o <<" ">> \o JoinedTheGroup \o <<" ">> \o date

D01032023 == <<"0", "1", ".", "0", "3", ".", "2", "0", "2", "3">>

D31122022 == <<"3", "1", ".", "1", "2", ".", "2", "0", "2", "2">>

Soon == <<"s", "o", "o", "n">>

\* hashlib.sha1(text.encode("utf-8")).hexdigest()[:6] of the names
sha1_hex6(text) ==
    CASE text = <<"A", "l", "p", "h", "a">> -> "58061a"
      [] text = <<"A", "L", "P", "H", "A">> -> "1c8c26"
      [] text = <<"!", "!", "!">> -> "9a7b00"
      [] text = <<"?", "?", "?">> -> "2d86c2"
      [] text = <<"U+0427", "U+0430", "U+0442">> -> "8c77e4"
      [] text = <<"a", " ", "b", " ", "c", " ", "d">> -> "30a47d"
      [] text = <<"U+00E9">> -> "bf15be"
      [] text = ProjectX -> "1d938a"
      [] text = Joined(<<"A", "l", "p", "h", "a">>, D01032023) -> "68a0e4"
      [] text = Joined(<<"A", "l", "p", "h", "a">>, D31122022) -> "f357bb"
      [] text = Joined(<<"A", "l", "p", "h", "a">>, Soon) -> "ba2204"
      [] text = Joined(ProjectX, D01032023) -> "04c3ff"
      [] text = Joined(ProjectX, D31122022) -> "b46012"
      [] text = Joined(ProjectX, Soon) -> "04b9bb"

\* unicodedata.normalize("NFKD", c): e with acute is e and the combining
\* acute accent
NFKD(c) == IF c = "U+00E9" THEN <<"e", "U+0301">> ELSE <<c>>

RECURSIVE normalize(_)
normalize(text) ==
    IF text = <<>> THEN <<>>
    ELSE NFKD(Head(text)) \o normalize(Tail(text))

\* str.lower() on the characters of the names
lower(c) ==
    CASE c = "A" -> "a" [] c = "L" -> "l" [] c = "P" -> "p"
      [] c = "H" -> "h" [] c = "U+0427" -> "U+0447"
      [] c = "U+041F" -> "U+043F" [] c = "U+0425" -> "U+0445" [] OTHER -> c

\* CYR_TO_LAT.get(char, char)
CYR_TO_LAT(c) ==
    CASE c = "U+0447" -> <<"c", "h">> [] c = "U+0430" -> <<"a">>
      [] c = "U+0442" -> <<"t">> [] c = "U+043F" -> <<"p">>
      [] c = "U+0440" -> <<"r">> [] c = "U+043E" -> <<"o">>
      [] c = "U+0454" -> <<"i", "e">> [] c = "U+043A" -> <<"k">>
      [] c = "U+0445" -> <<"k", "h">> [] OTHER -> <<c>>

RECURSIVE transliterate(_)
transliterate(text) ==
    IF text = <<>> THEN <<>>
    ELSE CYR_TO_LAT(lower(Head(text))) \o transliterate(Tail(text))

\* the characters re.sub(r"[^a-z0-9 ]", "", text) keeps
SlugChars ==
    {"a", "b", "c", "d", "e", "f", "g", "h", "i", "j", "k", "l", "m", "n",
     "o", "p", "q", "r", "s", "t", "u", "v", "w", "x", "y", "z", "0", "1",
     "2", "3", "4", "5", "6", "7", "8", "9", " "}

Keep(c) == c \in SlugChars

\* text.strip().split(): the words between runs of spaces, as strings
RECURSIVE split(_, _)
split(text, word) ==
    LET done == IF word = "" THEN <<>> ELSE <<word>>
    IN  IF text = <<>> THEN done
        ELSE IF Head(text) = " " THEN done \o split(Tail(text), "")
        ELSE split(Tail(text), word \o Head(text))

\* "_".join(words)
RECURSIVE join(_)
join(words) ==
    IF words = <<>> THEN ""
    ELSE IF Len(words) = 1 THEN words[1]
    ELSE words[1] \o "_" \o join(Tail(words))

\* words[:max_words]
FirstWords(words, max_words) ==
    SubSeq(words, 1, IF Len(words) < max_words THEN Len(words)
                     ELSE max_words)

\* base_slug of slugify
base_slug(text, max_words) ==
    join(FirstWords(
        split(SelectSeq(transliterate(normalize(text)), Keep), ""),
        max_words))

\* mutant: the final slug is not added to used_slugs
slugify_unregistered(text, max_words, used) ==
    LET base == base_slug(text, max_words)
        hash_part == sha1_hex6(text)
        slug == IF base = "" THEN "chat_" \o hash_part
                ELSE IF base \in used THEN base \o "_" \o hash_part
                ELSE base
    IN  [slug |-> slug, used_slugs |-> used]

\* extractors/slugify_utils.py slugify, called with a set: the slug and the
\* set after the call.  What re.sub leaves is alphanumeric or a space, so
\* the test "no alphanumeric character" is the test for an empty base slug.
slugify(text, max_words, used) ==
    LET base == base_slug(text, max_words)
        hash_part == sha1_hex6(text)
        slug == IF base = "" THEN "chat_" \o hash_part
                ELSE IF base \in used THEN base \o "_" \o hash_part
                ELSE base
    IN  [slug |-> slug, used_slugs |-> used \cup {slug}]

\* max_words: int = 3
DefaultMaxWords == 3

\* ------------------------------------------------------- dates and times
\* A date/time text is written down by what it holds: its notation ("iso":
\* ISO-8601-shaped, as 2023-03-01T23:30:00+05:00; "free": any other
\* notation dateutil reads, as 01.03.2023 23:30 +05:00; "junk": neither),
\* the date <<year, first number, second number>> (iso: month, day; free:
\* the two numbers in the order written), the time <<hour, minute>>, or <<>>
\* when it holds none, and the UTC offset <<hours>>, or <<>> when it holds
\* none.
TextDates == {<<2023, 3, 1>>, <<2023, 1, 1>>, <<2022, 12, 31>>}

TextTimes == {<<0, 0>>, <<0, 30>>, <<12, 0>>, <<23, 30>>}

TextOffsets == {<<0>>, <<5>>, <<-8>>}

IsoWritten(date) == date

\* the free notation writes the day before the month
FreeWritten(date) == <<date[1], date[3], date[2]>>

DateOnlyTexts ==
    {[form |-> "iso", date |-> IsoWritten(d), time |-> <<>>, tz |-> <<>>] :
        d \in TextDates}
    \cup {[form |-> "free", date |-> FreeWritten(d), time |-> <<>>,
           tz |-> <<>>] : d \in TextDates}

DateTimeTexts ==
    {[form |-> "iso", date |-> IsoWritten(d), time |-> t, tz |-> z] :
        d \in TextDates, t \in TextTimes, z \in TextOffsets \cup {<<>>}}
    \cup {[form |-> "free", date |-> FreeWritten(d), time |-> t, tz |-> z] :
           d \in TextDates, t \in TextTimes, z \in TextOffsets \cup {<<>>}}

JunkText == [form |-> "junk", date |-> <<>>, time |-> <<>>, tz |-> <<>>]

DateTexts == DateOnlyTexts \cup DateTimeTexts \cup {JunkText}

\* the default zones of the calls, with their UTC offset in hours on the
\* dates of the model (standard time: the dates lie in December to March 1)
DefaultZones == {"Europe/Kyiv", "America/New_York", "UTC"}

UtcOffset(zone) ==
    CASE zone = "Europe/Kyiv" -> 2
      [] zone = "America/New_York" -> -5
      [] zone = "UTC" -> 0

DEFAULT_TZ == "Europe/Kyiv"

DaysIn(y, m) ==
    IF m = 2 THEN (IF y % 4 = 0 THEN 29 ELSE 28)
    ELSE IF m \in {4, 6, 9, 11} THEN 30 ELSE 31

\* date <<y, m, d>> moved by -1, 0 or 1 day
AddDay(date, n) ==
    LET y == date[1]
        m == date[2]
        d == date[3]
    IN  IF n = 0 THEN date
        ELSE IF n = 1
             THEN IF d < DaysIn(y, m) THEN <<y, m, d + 1>>
                  ELSE IF m < 12 THEN <<y, m + 1, 1>> ELSE <<y + 1, 1, 1>>
        ELSE IF d > 1 THEN <<y, m, d - 1>>
             ELSE IF m > 1 THEN <<y, m - 1, DaysIn(y, m - 1)>>
             ELSE <<y - 1, 12, 31>>

\* mutant: the offset the text carries is dropped
isoparse_naive(text) ==
    IF text.form = "iso"
    THEN [exc |-> "none", date |-> text.date,
          time |-> IF text.time = <<>> THEN <<0, 0>> ELSE text.time,
          tzinfo |-> <<>>]
    ELSE [exc |-> "ValueError"]

\* dateutil.parser.isoparse(text): the datetime, or ValueError
isoparse(text) ==
    IF text.form = "iso"
    THEN [exc |-> "none", date |-> text.date,
          time |-> IF text.time = <<>> THEN <<0, 0>> ELSE text.time,
          tzinfo |-> text.tz]
    ELSE [exc |-> "ValueError"]

\* dateutil.parser.parse(text, dayfirst=day_first) on a text isoparse
\* rejected: of two ambiguous numbers the first is the day when dayfirst
\* is set and the second can be a month, else the month
dateutil_parse(text, day_first) ==
    IF text.form = "free"
    THEN LET a == text.date[2]
             b == text.date[3]
             dayfirst == IF day_first THEN b <= 12 ELSE a > 12
         IN  [exc |-> "none",
              date |-> IF dayfirst THEN <<text.date[1], b, a>>
                       ELSE <<text.date[1], a, b>>,
              time |-> IF text.time = <<>> THEN <<0, 0>> ELSE text.time,
              tzinfo |-> text.tz]
    ELSE [exc |-> "ValueError"]

\* default_tz.localize(dt)
localize(default_tz, dt) ==
    [dt EXCEPT !.tzinfo = <<UtcOffset(default_tz)>>]

\* to_utc_iso(dt): dt.astimezone(utc).isoformat() with Z for +00:00, the
\* text YYYY-MM-DDTHH:MM:00Z written as its date and time
to_utc_iso(dt) ==
    LET minutes == (dt.time[1] - dt.tzinfo[1]) * 60 + dt.time[2]
        day == IF minutes < 0 THEN -1 ELSE IF minutes >= 1440 THEN 1 ELSE 0
        m == minutes - day * 1440
    IN  [kind |-> "instant", date |-> AddDay(dt.date, day),
         time |-> <<m \div 60, m % 60>>]

\* the return value None of parse_datetime
NoText == [kind |-> "None", date |-> <<>>, time |-> <<>>]

\* extractors/time_utils.py parse_datetime with all its parameters: the
\* text returned, YYYY-MM-DDTHH:MM:00Z ("instant") or YYYY-MM-DD ("date"),
\* written as its date and time
parse_datetime_tz(text, default_tz, day_first, date_only) ==
    LET iso == isoparse(text)
        dt == dateutil_parse(text, day_first)
    IN  IF iso.exc = "none"
        THEN to_utc_iso(IF iso.tzinfo = <<>> THEN localize(default_tz, iso)
                        ELSE iso)
        ELSE IF dt.exc = "ValueError" THEN NoText
        ELSE IF date_only
             THEN [kind |-> "date", date |-> dt.date, time |-> <<>>]
        ELSE IF dt.time = <<0, 0>>
             THEN [kind |-> "instant", date |-> dt.date, time |-> <<0, 0>>]
        ELSE to_utc_iso(IF dt.tzinfo = <<>> THEN localize(default_tz, dt)
                        ELSE dt)

\* -------------------------------------------------------------- captions
DigitChars == <<"0", "1", "2", "3", "4", "5", "6", "7", "8", "9">>

IsDigitChar(c) == \E k \in 1..10 : DigitChars[k] = c

DigitValue(c) == (CHOOSE k \in 1..10 : DigitChars[k] = c) - 1

\* the number a run of digits writes
RECURSIVE Num(_)
Num(ds) ==
    IF ds = <<>> THEN 0
    ELSE Num(SubSeq(ds, 1, Len(ds) - 1)) * 10 + DigitValue(ds[Len(ds)])

\* n written with two digits, with four digits
TwoDigits(n) == <<DigitChars[(n \div 10) + 1], DigitChars[(n % 10) + 1]>>

FourDigits(n) == TwoDigits(n \div 100) \o TwoDigits(n % 100)

\* the date <<year, month, day>> written DD.MM.YYYY
DateChars(date) ==
    TwoDigits(date[3]) \o <<".">> \o TwoDigits(date[2]) \o <<".">>
        \o FourDigits(date[1])

StartsWith(text, prefix) ==
    Len(text) >= Len(prefix) /\ SubSeq(text, 1, Len(prefix)) = prefix

Drop(text, n) == SubSeq(text, n + 1, Len(text))

\* the length of the whitespace a text begins with
RECURSIVE Spaces(_)
Spaces(text) ==
    IF text # <<>> /\ Head(text) = " " THEN 1 + Spaces(Tail(text)) ELSE 0

\* the place of the first c in a text, 0 when there is none
RECURSIVE IndexOf(_, _)
IndexOf(text, c) ==
    IF text = <<>> THEN 0
    ELSE IF Head(text) = c THEN 1
    ELSE LET k == IndexOf(Tail(text), c) IN IF k = 0 THEN 0 ELSE k + 1

RECURSIVE rstrip(_)
rstrip(text) ==
    IF text # <<>> /\ text[Len(text)] = " "
    THEN rstrip(SubSeq(text, 1, Len(text) - 1))
    ELSE text

\* str.strip() on a text
strip_text(text) == rstrip(Drop(text, Spaces(text)))

\* re.sub(r"\s*\(joined the group.*?\)", "", text)
RECURSIVE re_sub_joined(_)
re_sub_joined(text) ==
    IF text = <<>> THEN <<>>
    ELSE LET rest == Drop(text, Spaces(text))
             open == <<"(">> \o JoinedTheGroup
             close == IF StartsWith(rest, open)
                      THEN IndexOf(Drop(rest, Len(open)), ")")
                      ELSE 0
         IN  IF close > 0
             THEN re_sub_joined(Drop(rest, Len(open) + close))
             ELSE <<Head(text)>> \o re_sub_joined(Tail(text))

\* \d{1,max} at the head of a text
RECURSIVE TakeDigits(_, _)
TakeDigits(text, max) ==
    IF max > 0 /\ text # <<>> /\ IsDigitChar(Head(text))
    THEN <<Head(text)>> \o TakeDigits(Tail(text), max - 1)
    ELSE <<>>

IsSep(text) == text # <<>> /\ Head(text) \in {".", "/"}

\* \d{1,2}[./]\d{1,2}[./]\d{2,4} at the head of a text: the three runs of
\* digits, <<>> without a match
match_date(text) ==
    LET d1 == TakeDigits(text, 2)
        t1 == Drop(text, Len(d1))
        d2 == TakeDigits(Drop(t1, 1), 2)
        t2 == Drop(t1, 1 + Len(d2))
        d3 == TakeDigits(Drop(t2, 1), 4)
    IN  IF d1 # <<>> /\ IsSep(t1) /\ d2 # <<>> /\ IsSep(t2) /\ Len(d3) >= 2
        THEN <<d1, d2, d3>>
        ELSE <<>>

\* re.search(r"joined the group\s+(\d{1,2}[./]\d{1,2}[./]\d{2,4})", text):
\* the runs of digits of group 1, <<>> without a match
RECURSIVE re_search_joined(_)
re_search_joined(text) ==
    IF text = <<>> THEN <<>>
    ELSE LET after == Drop(text, Len(JoinedTheGroup))
             m == IF StartsWith(text, JoinedTheGroup) /\ Spaces(after) > 0
                  THEN match_date(Drop(after, Spaces(after)))
                  ELSE <<>>
         IN  IF m # <<>> THEN m ELSE re_search_joined(Tail(text))

\* match.group(1) as a date text; the years of the documents are written
\* with four digits
GroupText(m) ==
    [form |-> "free", date |-> <<Num(m[3]), Num(m[1]), Num(m[2])>>,
     time |-> <<>>, tz |-> <<>>]

\* the caption <caption><a>name</a>rest</caption> when a is TRUE and
\* <caption>name rest</caption> otherwise; rest is nothing (marker "none"),
\* " (joined the group D)" (marker "parens") or " joined the group D"
\* (marker "bare"), D being the date <<year, month, day>> written
\* DD.MM.YYYY, or the word "soon" when date is <<>>
CaptionRest(caption) ==
    LET d == IF caption.date = <<>> THEN Soon ELSE DateChars(caption.date)
    IN  CASE caption.marker = "none" -> <<>>
          [] caption.marker = "parens" ->
                <<" ", "(">> \o JoinedTheGroup \o <<" ">> \o d \o <<")">>
          [] caption.marker = "bare" -> <<" ">> \o JoinedTheGroup \o <<" ">> \o d

CaptionTags ==
    {[a |-> FALSE, name |-> n, marker |-> "none", date |-> <<>>] :
        n \in {<<"A", "l", "p", "h", "a">>, ProjectX}}
    \cup {[a |-> FALSE, name |-> n, marker |-> "parens", date |-> d] :
            n \in {<<"A", "l", "p", "h", "a">>, ProjectX},
            d \in {<<2023, 3, 1>>, <<2022, 12, 31>>, <<>>}}
    \cup {[a |-> FALSE, name |-> n, marker |-> "bare", date |-> d] :
            n \in {<<"A", "l", "p", "h", "a">>, ProjectX},
            d \in {<<2023, 3, 1>>, <<>>}}
    \cup {[a |-> TRUE, name |-> <<"A", "l", "p", "h", "a">>, marker |-> m,
           date |-> <<2023, 3, 1>>] : m \in {"parens", "bare"}}

\* name, joined date and slug of one captioned table, and used_slugs after
\* it
ExtractedCaption(caption, used) ==
    LET caption_text == strip_text(caption.name \o CaptionRest(caption))
        name == strip_text(re_sub_joined(
                    IF caption.a THEN strip_text(caption.name)
                    ELSE caption_text))
        match == re_search_joined(caption_text)
        joined_date == IF match # <<>>
                       THEN parse_datetime_tz(GroupText(match), DEFAULT_TZ,
                                              TRUE, TRUE)
                       ELSE NoText
        r == slugify(name, DefaultMaxWords, used)
    IN  [name |-> name, joined |-> joined_date, slug |-> r.slug,
         used_slugs |-> r.used_slugs]

\* ------------------------------------------------------------------ state
VARIABLES
    committed,   \* store -> the durable database
    working,     \* store -> the database as the open connection sees it
    pc,          \* position of main()
    run,         \* number of the current run of main()
    chats,       \* the list extract_chats returned (the same in every run)
    idx,         \* index of the chat of the for loop
    messages,    \* extract_messages of the current chat
    midx,        \* index of the message of the inner loop
    refs,        \* store -> chat_ref_id resolved for the current chat
    faults,      \* store failures and interrupts so far
    cur,         \* what happened to the current chat
    outcomes,    \* what happened to the chats of this run, in order
    started,     \* store -> the durable database the run started from
    last,        \* the last writer call made directly on a store
    calls,       \* number of calls made directly on a function
    used_slugs   \* the used_slugs set of extract_chats

vars == <<committed, working, pc, run, chats, idx, messages, midx, refs,
          faults, cur, outcomes, started, last, calls, used_slugs>>

NoCall == [op |-> "none"]

NewCur == [sqlite |-> FALSE, pg |-> FALSE, exc |-> "none", injected |-> FALSE]

Init ==
    /\ committed = [s \in Stores |-> EmptyDB]
    /\ working = [s \in Stores |-> EmptyDB]
    /\ pc = "start"
    /\ run = 1
    /\ chats \in Documents
    /\ idx = 0
    /\ messages = <<>>
    /\ midx = 0
    /\ refs = [s \in Stores |-> 0]
    /\ faults = 0
    /\ cur = NewCur
    /\ outcomes = <<>>
    /\ started = [s \in Stores |-> EmptyDB]
    /\ last = NoCall
    /\ calls = 0
    /\ used_slugs = {}

\* --------------------------------------------------------------- main()
\* the for loop of main reaches chat k: extract_messages, or, past the last
\* chat, the cleanup after the loop
Enter(k) ==
    /\ idx' = k
    /\ midx' = 1
    /\ refs' = [s \in Stores |-> 0]
    /\ cur' = NewCur
    /\ IF k <= Len(chats)
       THEN /\ pc' = "sqlite_chat"
            /\ messages' = extract_messages(chats[k].table, chats[k].slug)
       ELSE /\ pc' = "cleanup"
            /\ messages' = <<>>

\* main is over (return, end of the function, or an exception that leaves
\* it): the connections go away and what they had not committed is lost
Finish(how, outs) ==
    /\ pc' = how
    /\ working' = [s \in Stores |-> rollback(s, working[s], committed[s])]
    /\ outcomes' = outs

\* sqlite3.connect, ensure_sqlite_tables: sqlite3 runs DDL outside of any
\* transaction, the tables are durable at once
SetupSqlite ==
    /\ pc = "start"
    /\ working' = [working EXCEPT !.sqlite = ensure_tables(@)]
    /\ committed' = [committed EXCEPT !.sqlite = ensure_tables(@)]
    /\ pc' = "setup_pg"
    /\ UNCHANGED <<run, chats, idx, messages, midx, refs, faults, cur,
                   outcomes, started, last, calls, used_slugs>>

\* psycopg2.connect, ensure_pg_tables: the DDL opens a transaction that main
\* does not commit before the loop
SetupPg ==
    /\ pc = "setup_pg"
    /\ working' = [working EXCEPT !.pg = ensure_tables(@)]
    /\ Enter(1)
    /\ UNCHANGED <<committed, run, chats, faults, outcomes, started, last,
                   calls, used_slugs>>

\* except (sqlite3.DatabaseError, PGDatabaseError) of the setup: return
SetupError ==
    /\ pc \in {"start", "setup_pg"}
    /\ faults < MaxFaults
    /\ faults' = faults + 1
    /\ Finish("aborted", outcomes)
    /\ UNCHANGED <<committed, run, chats, idx, messages, midx, refs, cur,
                   started, last, calls, used_slugs>>

\* an exception leaves a writer call of the loop body: ValueError is not
\* caught by main and ends the process, the others reach the except clause
Raise(exc) ==
    IF exc = "ValueError"
    THEN /\ Finish("crashed", Append(outcomes, [cur EXCEPT !.exc = exc]))
         /\ UNCHANGED <<committed, run, chats, idx, messages, midx, refs,
                        faults, cur, started, last, calls, used_slugs>>
    ELSE /\ pc' = "except"
         /\ cur' = [cur EXCEPT !.exc = exc]
         /\ UNCHANGED <<committed, working, run, chats, idx, messages, midx,
                        refs, faults, outcomes, started, last, calls,
                        used_slugs>>

\* a store call of the loop body fails (connection lost, disk error ...)
StoreError ==
    /\ pc \in {"sqlite_chat", "pg_chat", "refs", "sqlite_msg", "pg_msg",
               "sqlite_commit", "pg_commit"}
    /\ faults < MaxFaults
    /\ faults' = faults + 1
    /\ pc' = "except"
    /\ cur' = [cur EXCEPT !.exc = "DatabaseError", !.injected = TRUE]
    /\ UNCHANGED <<committed, working, run, chats, idx, messages, midx, refs,
                   outcomes, started, last, calls, used_slugs>>

\* insert_sqlite_chat(sqlite_cur, chat)
InsertSqliteChat ==
    /\ pc = "sqlite_chat"
    /\ LET r == insert_sqlite_chat(working.sqlite, chats[idx])
       IN  IF r.exc = "none"
           THEN /\ working' = [working EXCEPT !.sqlite = r.db]
                /\ pc' = "pg_chat"
                /\ UNCHANGED <<committed, run, chats, idx, messages, midx,
                               refs, faults, cur, outcomes, started, last,
                               calls, used_slugs>>
           ELSE Raise(r.exc)

\* insert_pg_chat(pg_cur, chat)
InsertPgChat ==
    /\ pc = "pg_chat"
    /\ LET r == insert_pg_chat(working.pg, chats[idx])
       IN  IF r.exc = "none"
           THEN /\ working' = [working EXCEPT !.pg = r.db]
                /\ pc' = "refs"
                /\ UNCHANGED <<committed, run, chats, idx, messages, midx,
                               refs, faults, cur, outcomes, started, last,
                               calls, used_slugs>>
           ELSE Raise(r.exc)

\* get_chat_id_by_slug_sqlite, get_chat_id_by_slug_pg
ResolveRefs ==
    /\ pc = "refs"
    /\ LET sqlite_chat_ref_id ==
               get_chat_id_by_slug(working.sqlite, chats[idx].slug)
           pg_chat_ref_id == get_chat_id_by_slug(working.pg, chats[idx].slug)
       IN  IF sqlite_chat_ref_id = 0 \/ pg_chat_ref_id = 0
           THEN Raise("ValueError")
           ELSE /\ refs' = [sqlite |-> sqlite_chat_ref_id,
                            pg |-> pg_chat_ref_id]
                /\ pc' = IF messages = <<>> THEN "sqlite_commit"
                         ELSE "sqlite_msg"
                /\ UNCHANGED <<committed, working, run, chats, idx, messages,
                               midx, faults, cur, outcomes, started, last,
                               calls, used_slugs>>

\* insert_sqlite_message(sqlite_cur, msg, sqlite_chat_ref_id)
InsertSqliteMessage ==
    /\ pc = "sqlite_msg"
    /\ LET r == insert_sqlite_message(working.sqlite, messages[midx],
                                      refs.sqlite)
       IN  IF r.exc = "none"
           THEN /\ working' = [working EXCEPT !.sqlite = r.db]
                /\ pc' = "pg_msg"
                /\ UNCHANGED <<committed, run, chats, idx, messages, midx,
                               refs, faults, cur, outcomes, started, last,
                               calls, used_slugs>>
           ELSE Raise(r.exc)

\* insert_pg_message(pg_cur, msg, pg_chat_ref_id), then the next msg
InsertPgMessage ==
    /\ pc = "pg_msg"
    /\ LET r == insert_pg_message(working.pg, messages[midx], refs.pg)
       IN  IF r.exc = "none"
           THEN /\ working' = [working EXCEPT !.pg = r.db]
                /\ midx' = midx + 1
                /\ pc' = IF midx < Len(messages) THEN "sqlite_msg"
                         ELSE "sqlite_commit"
                /\ UNCHANGED <<committed, run, chats, idx, messages, refs,
                               faults, cur, outcomes, started, last, calls,
                               used_slugs>>
           ELSE Raise(r.exc)

\* mutant: the first commit of the chat is that of the PostgreSQL connection
CommitSqlite_pg_first ==
    /\ pc = "sqlite_commit"
    /\ committed' = [committed EXCEPT !.pg = commit(working.pg)]
    /\ cur' = [cur EXCEPT !.sqlite = TRUE]
    /\ pc' = "pg_commit"
    /\ UNCHANGED <<working, run, chats, idx, messages, midx, refs, faults,
                   outcomes, started, last, calls, used_slugs>>

\* sqlite_conn.commit()
CommitSqlite ==
    /\ pc = "sqlite_commit"
    /\ committed' = [committed EXCEPT !.sqlite = commit(working.sqlite)]
    /\ cur' = [cur EXCEPT !.sqlite = TRUE]
    /\ pc' = "pg_commit"
    /\ UNCHANGED <<working, run, chats, idx, messages, midx, refs, faults,
                   outcomes, started, last, calls, used_slugs>>

\* pg_conn.commit(), then the next chat
CommitPg ==
    /\ pc = "pg_commit"
    /\ committed' = [committed EXCEPT !.pg = commit(working.pg)]
    /\ outcomes' = Append(outcomes, [cur EXCEPT !.pg = TRUE])
    /\ Enter(idx + 1)
    /\ UNCHANGED <<working, run, chats, faults, started, last, calls,
                   used_slugs>>

\* except (sqlite3.DatabaseError, PGDatabaseError, KeyError): rollback of
\* both connections, then the next chat
Except ==
    /\ pc = "except"
    /\ working' = [s \in Stores |-> rollback(s, working[s], committed[s])]
    /\ outcomes' = Append(outcomes, cur)
    /\ Enter(idx + 1)
    /\ UNCHANGED <<committed, run, chats, faults, started, last, calls,
                   used_slugs>>

\* the cleanup after the loop: cursors and connections are closed
Cleanup ==
    /\ pc = "cleanup"
    /\ Finish("done", outcomes)
    /\ UNCHANGED <<committed, run, chats, idx, messages, midx, refs, faults,
                   cur, started, last, calls, used_slugs>>

\* Ctrl-C while main runs: KeyboardInterrupt is raised between two bytecodes
\* of the main thread, no except clause of main matches it, and the handler
\* of __main__ logs it; the process ends with the connections uncommitted
KeyboardInterrupt ==
    /\ pc \in {"start", "setup_pg", "sqlite_chat", "pg_chat", "refs",
               "sqlite_msg", "pg_msg", "sqlite_commit", "pg_commit",
               "except", "cleanup"}
    /\ faults < MaxFaults
    /\ faults' = faults + 1
    /\ cur' = [cur EXCEPT !.exc = "KeyboardInterrupt"]
    /\ Finish("interrupted", outcomes)
    /\ UNCHANGED <<committed, run, chats, idx, messages, midx, refs,
                   started, last, calls, used_slugs>>

\* the program is started again on the same document
NextRun ==
    /\ pc \in {"done", "aborted", "crashed", "interrupted"}
    /\ run < MaxRuns
    /\ run' = run + 1
    /\ pc' = "start"
    /\ idx' = 0
    /\ messages' = <<>>
    /\ midx' = 0
    /\ refs' = [s \in Stores |-> 0]
    /\ cur' = NewCur
    /\ outcomes' = <<>>
    /\ started' = committed
    /\ UNCHANGED <<committed, working, chats, faults, last, calls, used_slugs>>

Next ==
    \/ SetupSqlite
    \/ SetupPg
    \/ SetupError
    \/ StoreError
    \/ InsertSqliteChat
    \/ InsertPgChat
    \/ ResolveRefs
    \/ InsertSqliteMessage
    \/ InsertPgMessage
    \/ CommitSqlite
    \/ CommitPg
    \/ Except
    \/ Cleanup
    \/ KeyboardInterrupt
    \/ NextRun

Spec == Init /\ [][Next]_vars

\* ------------------------------------------ the writers called directly
\* the chat dicts of the direct calls: three that carry every key, one as
\* extract_chats builds it (no "is_public"), one without "slug"
ApiChats ==
    {ExtractedChat("a", "101", <<>>) @@ [is_public |-> "True"],
     ExtractedChat("a", None, <<>>) @@ [is_public |-> "False"],
     ExtractedChat("b", "101", <<>>) @@ [is_public |-> "True"],
     ExtractedChat("b", None, <<>>),
     [name |-> "Gamma", chat_id |-> None]}

\* the message dicts of the direct calls: one per kind of row
ApiMessages == {extract_messages(<<RowKinds[k]>>, "a")[1] : k \in 1..2}

\* the chat_ref_id values of the direct calls
ApiRefs == {1, 2}

\* both stores hold the tables; the calls of one behaviour go to one store
StoreInit ==
    /\ committed = [s \in Stores |-> ensure_tables(EmptyDB)]
    /\ working = [s \in Stores |-> ensure_tables(EmptyDB)]
    /\ pc = "api"
    /\ run = 1
    /\ chats = <<>>
    /\ idx = 0
    /\ messages = <<>>
    /\ midx = 0
    /\ refs = [s \in Stores |-> 0]
    /\ faults = 0
    /\ cur = NewCur
    /\ outcomes = <<>>
    /\ started = [s \in Stores |-> EmptyDB]
    /\ \E s \in Stores : last = [op |-> "none", store |-> s]
    /\ calls = 0
    /\ used_slugs = {}

\* a caller of the writers handles a store error as main does: rollback
AfterCall(s, r) ==
    IF r.exc = "DatabaseError" THEN rollback(s, r.db, committed[s]) ELSE r.db

\* insert_chat(cursor, chat) of the store's writer
CallInsertChat ==
    /\ pc = "api"
    /\ calls < MaxCalls
    /\ \E chat \in ApiChats :
         LET s == last.store
             r == IF s = "sqlite" THEN insert_sqlite_chat(working[s], chat)
                  ELSE insert_pg_chat(working[s], chat)
         IN  /\ working' = [working EXCEPT ![s] = AfterCall(s, r)]
             /\ last' = [op |-> "insert_chat", store |-> s, arg |-> chat,
                         ref |-> 0, exc |-> r.exc, before |-> working[s]]
    /\ calls' = calls + 1
    /\ UNCHANGED <<committed, pc, run, chats, idx, messages, midx, refs,
                   faults, cur, outcomes, started, used_slugs>>

\* insert_message(cursor, msg, chat_ref_id) of the store's writer
CallInsertMessage ==
    /\ pc = "api"
    /\ calls < MaxCalls
    /\ \E msg \in ApiMessages, chat_ref_id \in ApiRefs :
         LET s == last.store
             r == IF s = "sqlite"
                  THEN insert_sqlite_message(working[s], msg, chat_ref_id)
                  ELSE insert_pg_message(working[s], msg, chat_ref_id)
         IN  /\ working' = [working EXCEPT ![s] = AfterCall(s, r)]
             /\ last' = [op |-> "insert_message", store |-> s, arg |-> msg,
                         ref |-> chat_ref_id, exc |-> r.exc,
                         before |-> working[s]]
    /\ calls' = calls + 1
    /\ UNCHANGED <<committed, pc, run, chats, idx, messages, midx, refs,
                   faults, cur, outcomes, started, used_slugs>>

\* connection.commit()
CallCommit ==
    /\ pc = "api"
    /\ calls < MaxCalls
    /\ LET s == last.store
       IN  /\ committed' = [committed EXCEPT ![s] = commit(working[s])]
           /\ last' = [op |-> "commit", store |-> s, arg |-> None, ref |-> 0,
                       exc |-> "none", before |-> working[s]]
    /\ calls' = calls + 1
    /\ UNCHANGED <<working, pc, run, chats, idx, messages, midx, refs,
                   faults, cur, outcomes, started, used_slugs>>

\* connection.rollback()
CallRollback ==
    /\ pc = "api"
    /\ calls < MaxCalls
    /\ LET s == last.store
       IN  /\ working' = [working EXCEPT
                            ![s] = rollback(s, working[s], committed[s])]
           /\ last' = [op |-> "rollback", store |-> s, arg |-> None,
                       ref |-> 0, exc |-> "none", before |-> working[s]]
    /\ calls' = calls + 1
    /\ UNCHANGED <<committed, pc, run, chats, idx, messages, midx, refs,
                   faults, cur, outcomes, started, used_slugs>>

StoreNext ==
    \/ CallInsertChat
    \/ CallInsertMessage
    \/ CallCommit
    \/ CallRollback

StoreSpec == StoreInit /\ [][StoreNext]_vars

\* ------------------------------- the writers of both stores, call by call
\* empty stores without tables, one connection each
TwinInit ==
    /\ committed = [s \in Stores |-> EmptyDB]
    /\ working = [s \in Stores |-> EmptyDB]
    /\ pc = "twin"
    /\ run = 1
    /\ chats = <<>>
    /\ idx = 0
    /\ messages = <<>>
    /\ midx = 0
    /\ refs = [s \in Stores |-> 0]
    /\ faults = 0
    /\ cur = NewCur
    /\ outcomes = <<>>
    /\ started = [s \in Stores |-> EmptyDB]
    /\ last = NoCall
    /\ calls = 0
    /\ used_slugs = {}

\* ensure_sqlite_tables(sqlite_cur) and ensure_pg_tables(pg_cur), as in main
TwinEnsureTables ==
    /\ pc = "twin"
    /\ calls < MaxCalls
    /\ working' = [s \in Stores |-> ensure_tables(working[s])]
    /\ committed' = [committed EXCEPT !.sqlite = ensure_tables(@)]
    /\ last' = [op |-> "ensure_tables", arg |-> None, ref |-> 0,
                exc |-> [s \in Stores |-> "none"],
                skipped |-> [s \in Stores |-> FALSE]]
    /\ calls' = calls + 1
    /\ UNCHANGED <<pc, run, chats, idx, messages, midx, refs, faults, cur,
                   outcomes, started, used_slugs>>

\* insert_chat of both writers with the same dict
TwinInsertChat ==
    /\ pc = "twin"
    /\ calls < MaxCalls
    /\ \E chat \in ApiChats :
         LET r == [sqlite |-> insert_sqlite_chat(working.sqlite, chat),
                   pg |-> insert_pg_chat(working.pg, chat)]
         IN  /\ working' = [s \in Stores |-> AfterCall(s, r[s])]
             /\ last' = [op |-> "insert_chat", arg |-> chat, ref |-> 0,
                         exc |-> [s \in Stores |-> r[s].exc],
                         skipped |-> [s \in Stores |-> FALSE]]
    /\ calls' = calls + 1
    /\ UNCHANGED <<committed, pc, run, chats, idx, messages, midx, refs,
                   faults, cur, outcomes, started, used_slugs>>

\* insert_message of both writers with the same dict and chat_ref_id
TwinInsertMessage ==
    /\ pc = "twin"
    /\ calls < MaxCalls
    /\ \E msg \in ApiMessages, chat_ref_id \in ApiRefs :
         LET r == [sqlite |-> insert_sqlite_message(working.sqlite, msg,
                                                    chat_ref_id),
                   pg |-> insert_pg_message(working.pg, msg, chat_ref_id)]
         IN  /\ working' = [s \in Stores |-> AfterCall(s, r[s])]
             /\ last' = [op |-> "insert_message", arg |-> msg,
                         ref |-> chat_ref_id,
                         exc |-> [s \in Stores |-> r[s].exc],
                         skipped |-> [s \in Stores |->
                             r[s].exc = "none" /\ r[s].db = working[s]]]
    /\ calls' = calls + 1
    /\ UNCHANGED <<committed, pc, run, chats, idx, messages, midx, refs,
                   faults, cur, outcomes, started, used_slugs>>

TwinNext ==
    \/ TwinEnsureTables
    \/ TwinInsertChat
    \/ TwinInsertMessage

TwinSpec == TwinInit /\ [][TwinNext]_vars

\* ------------------------------------------- extract_chats, table by table
\* used_slugs = set(), chat_data = []
SlugInit ==
    /\ committed = [s \in Stores |-> EmptyDB]
    /\ working = [s \in Stores |-> EmptyDB]
    /\ pc = "extract_chats"
    /\ run = 1
    /\ chats = <<>>
    /\ idx = 0
    /\ messages = <<>>
    /\ midx = 0
    /\ refs = [s \in Stores |-> 0]
    /\ faults = 0
    /\ cur = NewCur
    /\ outcomes = <<>>
    /\ started = [s \in Stores |-> EmptyDB]
    /\ last = NoCall
    /\ calls = 0
    /\ used_slugs = {}

\* the next captioned table of the document: its name is slugified with the
\* running set and the dict is appended to chat_data (of the dict, the keys
\* "name" and "slug")
ExtractChat ==
    /\ pc = "extract_chats"
    /\ calls < MaxCalls
    /\ \E name \in CaptionNames :
         LET r == slugify(name, DefaultMaxWords, used_slugs)
         IN  /\ chats' = Append(chats, [name |-> name, slug |-> r.slug])
             /\ used_slugs' = r.used_slugs
             /\ last' = [op |-> "slugify", text |-> name,
                         before |-> used_slugs, slug |-> r.slug]
    /\ calls' = calls + 1
    /\ UNCHANGED <<committed, working, pc, run, idx, messages, midx, refs,
                   faults, cur, outcomes, started>>

SlugNext == ExtractChat

SlugSpec == SlugInit /\ [][SlugNext]_vars

\* ----------------------------------------------- parse_datetime, by call
TimeInit ==
    /\ committed = [s \in Stores |-> EmptyDB]
    /\ working = [s \in Stores |-> EmptyDB]
    /\ pc = "parse_datetime"
    /\ run = 1
    /\ chats = <<>>
    /\ idx = 0
    /\ messages = <<>>
    /\ midx = 0
    /\ refs = [s \in Stores |-> 0]
    /\ faults = 0
    /\ cur = NewCur
    /\ outcomes = <<>>
    /\ started = [s \in Stores |-> EmptyDB]
    /\ last = NoCall
    /\ calls = 0
    /\ used_slugs = {}

\* parse_datetime(text, default_tz, date_only=date_only), day_first left at
\* its default
ParseDateTime ==
    /\ pc = "parse_datetime"
    /\ \E text \in DateTexts, default_tz \in DefaultZones,
          date_only \in BOOLEAN :
         last' = [op |-> "parse_datetime", text |-> text,
                  default_tz |-> default_tz, date_only |-> date_only,
                  ret |-> parse_datetime_tz(text, default_tz, TRUE,
                                            date_only)]
    /\ UNCHANGED <<committed, working, pc, run, chats, idx, messages, midx,
                   refs, faults, cur, outcomes, started, calls, used_slugs>>

TimeNext == ParseDateTime

TimeSpec == TimeInit /\ [][TimeNext]_vars

\* --------------------------------------------- extract_messages, by row
\* the id cells of the rows: plain text, a link with or without href, and a
\* link without text followed by digits
IdCells ==
    {IdCell(FALSE, "", None, t) : t \in IdTexts}
    \cup {IdCell(TRUE, t, h, "") :
            t \in IdTexts, h \in {None, "https://t.me/c/1/42"}}
    \cup {IdCell(TRUE, "", h, "42") : h \in {None, "https://t.me/c/1/42"}}

RowInit ==
    /\ committed = [s \in Stores |-> EmptyDB]
    /\ working = [s \in Stores |-> EmptyDB]
    /\ pc = "extract_messages"
    /\ run = 1
    /\ chats = <<>>
    /\ idx = 0
    /\ messages = <<>>
    /\ midx = 0
    /\ refs = [s \in Stores |-> 0]
    /\ faults = 0
    /\ cur = NewCur
    /\ outcomes = <<>>
    /\ started = [s \in Stores |-> EmptyDB]
    /\ last = NoCall
    /\ calls = 0
    /\ used_slugs = {}

\* one pass of the loop over the rows of the table of chat "a": the dict is
\* appended to messages, or the ValueError of int leaves extract_messages
\* and, caught nowhere in main, ends the run
ExtractRow ==
    /\ pc = "extract_messages"
    /\ Len(messages) < MaxRows
    /\ \E id_cell \in IdCells :
         LET row == Row(id_cell, "n/a", "hello")
             raised == row_msg_id(id_cell) = "ValueError"
         IN  /\ messages' = IF raised THEN messages
                            ELSE Append(messages, ExtractedMessage(row, "a"))
             /\ pc' = IF raised THEN "crashed" ELSE pc
             /\ last' = [op |-> "extract_messages", id_cell |-> id_cell,
                         exc |-> IF raised THEN "ValueError" ELSE "none"]
    /\ UNCHANGED <<committed, working, run, chats, idx, midx, refs, faults,
                   cur, outcomes, started, calls, used_slugs>>

RowNext == ExtractRow

RowSpec == RowInit /\ [][RowNext]_vars

\* ---------------------------------------------- extract_chats, by caption
CaptionInit ==
    /\ committed = [s \in Stores |-> EmptyDB]
    /\ working = [s \in Stores |-> EmptyDB]
    /\ pc = "caption"
    /\ run = 1
    /\ chats = <<>>
    /\ idx = 0
    /\ messages = <<>>
    /\ midx = 0
    /\ refs = [s \in Stores |-> 0]
    /\ faults = 0
    /\ cur = NewCur
    /\ outcomes = <<>>
    /\ started = [s \in Stores |-> EmptyDB]
    /\ last = NoCall
    /\ calls = 0
    /\ used_slugs = {}

\* one pass of the loop over the tables: name, joined date and slug are
\* taken from the caption and the dict is appended to chat_data (of the
\* dict, the keys "name", "joined" and "slug")
ExtractCaption ==
    /\ pc = "caption"
    /\ Len(chats) < MaxCaptions
    /\ \E caption \in CaptionTags :
         LET r == ExtractedCaption(caption, used_slugs)
         IN  /\ chats' = Append(chats, [name |-> r.name, joined |-> r.joined,
                                        slug |-> r.slug])
             /\ used_slugs' = r.used_slugs
             /\ last' = [op |-> "extract_chats", caption |-> caption,
                         before |-> used_slugs, name |-> r.name,
                         joined |-> r.joined, slug |-> r.slug]
    /\ UNCHANGED <<committed, working, pc, run, idx, messages, midx, refs,
                   faults, cur, outcomes, started, calls>>

CaptionNext == ExtractCaption

CaptionSpec == CaptionInit /\ [][CaptionNext]_vars

\* ---------------------------------------------------------- vocabulary
\* the rows of a database, without schema flag and sequences
RowsOf(db) == <<db.chats, db.messages>>

\* the row counts the re-run property speaks of
Counts(db) ==
    [chats |-> Cardinality(db.chats),
     messages |-> Cardinality({r \in db.messages : r.msg_id # None})]

\* what a stored value stands for, whatever the column type of the backend
DateText(v) ==
    IF \E d \in IsoDates : v = "DATE " \o d
    THEN CHOOSE d \in IsoDates : v = "DATE " \o d ELSE v

InstantText(v) ==
    IF \E t \in IsoInstants : v = "TIMESTAMPTZ " \o t
    THEN CHOOSE t \in IsoInstants : v = "TIMESTAMPTZ " \o t ELSE v

JsonValue(v) ==
    IF v \in {"JSONB null", "null"} THEN "null"
    ELSE IF v \in {"JSONB []", "[]"} THEN "[]" ELSE v

\* a conversation row up to its store-local id
AbsChat(r) ==
    [slug |-> r.slug, chat_id |-> r.chat_id, type |-> r.type,
     name |-> r.name, link |-> r.link, joined |-> DateText(r.joined),
     is_active |-> r.is_active, is_member |-> r.is_member,
     is_public |-> r.is_public, notes |-> r.notes]

\* the slugs of the conversation rows a message row points to
SlugsOfRef(db, ref) == {c.slug : c \in {x \in db.chats : x.id = ref}}

\* a message row up to its store-local ids
AbsMessage(db, r) ==
    [slugs |-> SlugsOfRef(db, r.chat_ref_id), msg_id |-> r.msg_id,
     timestamp |-> InstantText(r.timestamp), link |-> r.link,
     text |-> r.text, media |-> JsonValue(r.media),
     screenshot |-> r.screenshot, tags |-> JsonValue(r.tags),
     notes |-> r.notes]

AbsChats(db) == {AbsChat(r) : r \in db.chats}

Copies(db, m) == Cardinality({r \in db.messages : AbsMessage(db, r) = m})

\* two stores hold the same conversations and the same messages, each
\* message as often in the one as in the other
Equivalent(d1, d2) ==
    /\ AbsChats(d1) = AbsChats(d2)
    /\ Cardinality(d1.chats) = Cardinality(d2.chats)
    /\ \A m \in {AbsMessage(d1, r) : r \in d1.messages}
             \cup {AbsMessage(d2, r) : r \in d2.messages} :
           Copies(d1, m) = Copies(d2, m)

AllCommitted(outs) == \A k \in 1..Len(outs) : outs[k].sqlite /\ outs[k].pg

\* --------------------------------------------------------------- claims

\* C1: a second run on the same document, neither run hit by a store
\* failure, leaves in each store as many conversation rows and as many
\* message rows with a msg_id as the run before it
C1_RerunAddsNoRow ==
    (run >= 2 /\ faults = 0 /\ pc \in {"done", "crashed"})
        => \A s \in Stores : Counts(committed[s]) = Counts(started[s])

\* two complete runs, the stores hold two conversations and a message with
\* a msg_id
C1_Witness ==
    /\ run = 2
    /\ faults = 0
    /\ pc = "done"
    /\ AllCommitted(outcomes)
    /\ \A s \in Stores : /\ Counts(committed[s]).chats = 2
                         /\ Counts(committed[s]).messages >= 1
                         /\ Cardinality(committed[s].messages) >= 3

\* C2: a store never holds two message rows with the same chat_ref_id and
\* the same non-null msg_id, and insert_message of a pair that is already
\* stored raises nothing and leaves the store as it was
C2_NoDuplicateMessage ==
    /\ \A s \in Stores : \A db \in {working[s], committed[s]} :
         \A r1, r2 \in db.messages :
            (r1.msg_id # None /\ r1.msg_id = r2.msg_id
               /\ r1.chat_ref_id = r2.chat_ref_id) => r1 = r2
    /\ (/\ last.op = "insert_message"
        /\ last.arg.msg_id # None
        /\ \E r \in last.before.messages :
              r.chat_ref_id = last.ref /\ r.msg_id = last.arg.msg_id)
       => (last.exc = "none" /\ working[last.store] = last.before)

\* insert_message was called with a pair the store already held
C2_Witness ==
    /\ last.op = "insert_message"
    /\ last.arg.msg_id # None
    /\ \E r \in last.before.messages :
          r.chat_ref_id = last.ref /\ r.msg_id = last.arg.msg_id

\* the non-key fields of a chat dict, a missing key standing for None
FieldsOf(chat) ==
    [slug |-> chat.slug, chat_id |-> Get(chat, "chat_id"),
     type |-> Get(chat, "type"), name |-> Get(chat, "name"),
     link |-> Get(chat, "link"), joined |-> Get(chat, "joined"),
     is_active |-> Get(chat, "is_active"),
     is_member |-> Get(chat, "is_member"),
     is_public |-> Get(chat, "is_public"), notes |-> Get(chat, "notes")]

\* C3: a store holds at most one conversation row per slug, and after a
\* successful insert_chat(c) the row of c's slug holds c's non-key fields
C3_UpsertConverges ==
    /\ \A s \in Stores : \A db \in {working[s], committed[s]} :
         \A r1, r2 \in db.chats : r1.slug = r2.slug => r1 = r2
    /\ (last.op = "insert_chat" /\ last.exc = "none")
       => \E r \in working[last.store].chats :
             /\ r.slug = last.arg.slug
             /\ AbsChat(r) = FieldsOf(last.arg)

\* insert_chat succeeded on a slug whose row held another chat_id before
C3_Witness ==
    /\ last.op = "insert_chat"
    /\ last.exc = "none"
    /\ \E r \in last.before.chats :
          r.slug = last.arg.slug /\ r.chat_id # last.arg.chat_id

C5_ChatIdUnique ==
    \A s \in Stores : \A db \in {working[s], committed[s]} :
        \A r1, r2 \in db.chats :
            (r1.chat_id # None /\ r1.chat_id = r2.chat_id)
                => r1.slug = r2.slug

\* insert_chat rejected a chat_id that another slug of the store holds
C5_Witness ==
    /\ last.op = "insert_chat"
    /\ last.exc = "ValueError"
    /\ "slug" \in DOMAIN last.arg
    /\ \E r \in last.before.chats :
          r.chat_id = last.arg.chat_id /\ r.slug # last.arg.slug

\* C6: every durable message row points to a conversation row of its own
\* store, the row of the slug the message was extracted for
C6_RefIsOwnStoreId ==
    \A s \in Stores : \A r \in committed[s].messages :
        \E c \in committed[s].chats :
            c.id = r.chat_ref_id /\ <<r.id, c.slug>> \in committed[s].origin

\* both stores hold a message of the same conversation, under ids that
\* differ from one store to the other
C6_Witness ==
    \E r1 \in committed.sqlite.messages, r2 \in committed.pg.messages :
        /\ r1.chat_ref_id # r2.chat_ref_id
        /\ \E slug \in Slugs : /\ <<r1.id, slug>> \in committed.sqlite.origin
                               /\ <<r2.id, slug>> \in committed.pg.origin

C7_Step ==
    /\ \A s \in Stores :
         RowsOf(committed'[s]) # RowsOf(committed[s])
            => /\ pc = (IF s = "sqlite" THEN "sqlite_commit" ELSE "pg_commit")
               /\ committed'[s] = working[s]
               /\ midx > Len(messages)
    /\ pc' = "sqlite_chat"
            => \A s \in Stores : RowsOf(working'[s]) = RowsOf(committed'[s])

\* C7: the rows of a store become durable only by the commit that follows
\* the last message insert of a conversation, all pending rows at once, and
\* a conversation starts with no pending row in either store
C7_OneCommitPerConversation == [][C7_Step]_vars

\* the second conversation starts after the first was committed with its
\* messages in both stores
C7_Witness ==
    /\ pc = "sqlite_chat"
    /\ idx = 2
    /\ outcomes[1].sqlite /\ outcomes[1].pg
    /\ \A s \in Stores : committed[s].messages # {}

C10_StoresEquivalent ==
    (/\ pc = "done"
     /\ Len(outcomes) = Len(chats)
     /\ AllCommitted(outcomes)
     /\ Equivalent(started.sqlite, started.pg))
        => Equivalent(committed.sqlite, committed.pg)

\* such a run stored two conversations, one with a joined date, and
\* messages with and without timestamp
C10_Witness ==
    /\ pc = "done"
    /\ Len(chats) = 2
    /\ AllCommitted(outcomes)
    /\ Equivalent(started.sqlite, started.pg)
    /\ \E c \in committed.pg.chats : c.joined # None
    /\ \E c \in committed.pg.chats : c.joined = None
    /\ \E r \in committed.pg.messages : r.timestamp # None
    /\ \E r \in committed.pg.messages : r.timestamp = None

\* C11 (as claimed): the same calls made on both writers from empty stores
\* have the same outcome in both, call by call (success, skip, or the same
\* kind of error), and leave equivalent stores
C11_BackendsAgree ==
    last.op \in {"ensure_tables", "insert_chat", "insert_message"}
        => /\ last.exc.sqlite = last.exc.pg
           /\ last.skipped.sqlite = last.skipped.pg
           /\ Equivalent(working.sqlite, working.pg)

\* every message row of the document carries a numeric id
AllHaveMsgId ==
    \A k \in 1..Len(chats) :
        LET msgs == extract_messages(chats[k].table, chats[k].slug)
        IN  \A j \in 1..Len(msgs) : msgs[j].msg_id # None

\* the run started from stores that a commit made in SQLite and not in
\* PostgreSQL had left different, and it committed every conversation
RerunAfterSplitCommit ==
    /\ run >= 2
    /\ pc = "done"
    /\ Len(outcomes) = Len(chats)
    /\ AllCommitted(outcomes)
    /\ ~Equivalent(started.sqlite, started.pg)

\* the stores hold the same conversations and messages, SQLite no message
\* twice
Reconciled ==
    /\ Equivalent(committed.sqlite, committed.pg)
    /\ \A r \in committed.sqlite.messages :
          Copies(committed.sqlite, AbsMessage(committed.sqlite, r)) = 1

C13_Step ==
    pc' = "interrupted"
        => /\ \A s \in Stores : RowsOf(working[s]) = RowsOf(committed[s])
           /\ cur.sqlite = cur.pg
           /\ committed' = committed

\* C13 (as claimed): an interrupt ends the run only where no write of a
\* conversation is pending and no conversation is committed in SQLite and
\* not yet in PostgreSQL, and it leaves every commit made before intact
C13_InterruptAtBoundary == [][C13_Step]_vars

\* the rows without msg_id the tables captioned with a slug hold, counted
\* over the document
RowsWithoutId(slug) ==
    Cardinality({p \in (1..Len(chats)) \X (1..MaxRows + 1) :
        /\ chats[p[1]].slug = slug
        /\ p[2] <= Len(chats[p[1]].table)
        /\ extract_messages(chats[p[1]].table, slug)[p[2]].msg_id = None})

\* the message rows without msg_id a store holds for the conversation of a
\* slug
StoredWithoutId(db, slug) ==
    Cardinality({r \in db.messages :
        /\ r.msg_id = None
        /\ \E c \in db.chats : c.id = r.chat_ref_id /\ c.slug = slug})

\* C14: after n runs from empty stores, none hit by a failure and the last
\* one having committed every conversation, each store holds for every
\* conversation n times the rows without msg_id of its tables
C14_RowsWithoutIdAccumulate ==
    (/\ faults = 0
     /\ pc = "done"
     /\ Len(outcomes) = Len(chats)
     /\ AllCommitted(outcomes))
        => \A s \in Stores : \A slug \in Slugs :
              StoredWithoutId(committed[s], slug) = run * RowsWithoutId(slug)

\* two such runs on a document with a row without msg_id
C14_Witness ==
    /\ faults = 0
    /\ pc = "done"
    /\ run = 2
    /\ Len(chats) >= 1
    /\ AllCommitted(outcomes)
    /\ RowsWithoutId(chats[1].slug) >= 1
    /\ \A s \in Stores :
          StoredWithoutId(committed[s], chats[1].slug) >= 2

\* C15 (as claimed): the dicts extract_chats returns have pairwise distinct
\* slugs
C15_SlugsDistinct ==
    pc = "extract_chats"
        => \A i, j \in 1..Len(chats) : i # j => chats[i].slug # chats[j].slug

\* the slugs registered before the call for table i
UsedBefore(i) == {chats[j].slug : j \in 1..(i - 1)}

\* tables i and i + 1 carry distinct names with the same base slug
SameBase(i) ==
    /\ pc = "extract_chats"
    /\ i + 1 <= Len(chats)
    /\ chats[i].name # chats[i + 1].name
    /\ base_slug(chats[i].name, DefaultMaxWords)
         = base_slug(chats[i + 1].name, DefaultMaxWords)

\* the first call returned the base slug, the second the base slug with the
\* hash of its own text, and both slugs are registered
BaseThenHashed(i) ==
    /\ chats[i].slug = base_slug(chats[i].name, DefaultMaxWords)
    /\ chats[i + 1].slug = base_slug(chats[i + 1].name, DefaultMaxWords)
                              \o "_" \o sha1_hex6(chats[i + 1].name)
    /\ chats[i].slug # chats[i + 1].slug
    /\ {chats[i].slug, chats[i + 1].slug} \subseteq used_slugs

\* C16 (as claimed): two consecutive calls on the same set with distinct
\* names of the same base slug: the first gets the base slug, the second
\* the base slug with its hash, both are registered
C16_SecondGetsHash ==
    \A i \in 1..Len(chats) : SameBase(i) => BaseThenHashed(i)

\* C16 (amended): the same, when the base slug is not empty and not in the
\* set before the first of the two calls
C16_SecondGetsHashOnFreshBase ==
    \A i \in 1..Len(chats) :
        (/\ SameBase(i)
         /\ base_slug(chats[i].name, DefaultMaxWords) # ""
         /\ base_slug(chats[i].name, DefaultMaxWords) \notin UsedBefore(i))
            => BaseThenHashed(i)

\* "Alpha" then "ALPHA" on the empty set
C16_Witness ==
    /\ Len(chats) = 2
    /\ SameBase(1)
    /\ chats[1].slug = "alpha"
    /\ chats[2].slug = "alpha_1c8c26"

\* the calendar date a text holds, the day read before the month in the
\* free notation
WrittenDate(text) ==
    IF text.form = "iso" THEN text.date
    ELSE <<text.date[1], text.date[3], text.date[2]>>

\* C18 (as claimed): in date-only mode every parseable text gives the date
\* it holds as YYYY-MM-DD, whatever the default zone
C18_DateOnlyKeepsDate ==
    (/\ last.op = "parse_datetime"
     /\ last.date_only
     /\ last.text.form # "junk")
        => last.ret = [kind |-> "date", date |-> WrittenDate(last.text),
                       time |-> <<>>]

\* the canonical UTC texts YYYY-MM-DDTHH:MM:00Z
Canonical(text) ==
    text.form = "iso" /\ text.time # <<>> /\ text.tz = <<0>>

\* the text parse_datetime returned in full mode, as an input text
AsText(ret) ==
    [form |-> "iso", date |-> ret.date, time |-> ret.time, tz |-> <<0>>]

\* C19: in full mode a canonical UTC text is returned as it is, whatever
\* the default zone, and what parse_datetime returns in full mode is
\* returned as it is when parsed again, in every default zone
C19_CanonicalRoundTrip ==
    (last.op = "parse_datetime" /\ ~last.date_only)
        => /\ Canonical(last.text) => AsText(last.ret) = last.text
           /\ last.ret # NoText
                => \A z \in DefaultZones :
                      parse_datetime_tz(AsText(last.ret), z, TRUE, FALSE)
                          = last.ret

\* a canonical text parsed with a default zone east of UTC, and a local
\* time that the conversion moved to the day before
C19_Witness ==
    /\ last.op = "parse_datetime"
    /\ ~last.date_only
    /\ last.default_tz = "Europe/Kyiv"
    /\ \/ Canonical(last.text) /\ last.text.time = <<0, 30>>
       \/ /\ last.text.form = "iso"
          /\ last.text.tz = <<>>
          /\ last.ret.date # last.text.date

\* the id text of a row: the text of the id cell's link when it has one,
\* the cell's own text otherwise, without the surrounding whitespace
IdText(id_cell) ==
    strip(IF id_cell.a THEN id_cell.a_text ELSE id_cell.own)

\* C20 (as claimed): extract_messages does not raise; msg_id is the integer
\* value of the id text exactly when that text consists only of decimal
\* digits and None otherwise; link is the href of the id cell's link when it
\* has one, whatever msg_id is, and None without one
C20_IdAndLink ==
    last.op = "extract_messages"
        => /\ last.exc = "none"
           /\ messages[Len(messages)].msg_id
                = (IF isdecimal(IdText(last.id_cell))
                   THEN int(IdText(last.id_cell)) ELSE None)
           /\ messages[Len(messages)].link
                = (IF last.id_cell.a /\ last.id_cell.href # None
                   THEN last.id_cell.href ELSE None)


\* the three booleans of a conversation record
Flags == {"is_active", "is_member", "is_public"}

\* C21 (as claimed): every dict of extract_chats carries is_active,
\* is_member and is_public as booleans, and once its chat is committed the
\* row of its slug holds the three values in both stores
C21_FlagsExtractedAndStored ==
    \A k \in 1..Len(chats) :
        /\ \A f \in Flags :
              f \in DOMAIN chats[k] /\ chats[k][f] \in {"True", "False"}
        /\ (k <= Len(outcomes) /\ outcomes[k].sqlite /\ outcomes[k].pg)
              => \A s \in Stores : \E r \in committed[s].chats :
                    /\ r.slug = chats[k].slug
                    /\ \A f \in Flags : r[f] = chats[k][f]


RECURSIVE Contains(_, _)
Contains(text, part) ==
    text # <<>> /\ (StartsWith(text, part) \/ Contains(Tail(text), part))

\* C22 (as claimed): whenever a joined date is taken from the marker of a
\* caption, it is the date the marker writes, day before month, in date-only
\* form, and the name of the record and the slug made from it are those of
\* the caption without the marker
C22_MarkerGivesDateAndLeavesName ==
    (last.op = "extract_chats" /\ last.joined # NoText)
        => /\ last.joined = [kind |-> "date", date |-> last.caption.date,
                             time |-> <<>>]
           /\ ~Contains(last.name, JoinedTheGroup)
           /\ last.name = last.caption.name
           /\ last.slug = slugify(last.caption.name, DefaultMaxWords,
                                  last.before).slug


\* the wall-clock value a text without zone writes, its time 00:00 when it
\* writes none
WallClock(text) ==
    [exc |-> "none", date |-> WrittenDate(text),
     time |-> IF text.time = <<>> THEN <<0, 0>> ELSE text.time,
     tzinfo |-> <<>>]

\* C23 (as claimed): in full mode a parseable text without zone gives, for
\* every time of day, the instant of its wall-clock time in the default zone:
\* the wall-clock time minus the UTC offset of that zone
C23_NaiveIsLocalizedToDefault ==
    (/\ last.op = "parse_datetime"
     /\ ~last.date_only
     /\ last.text.form # "junk"
     /\ last.text.tz = <<>>)
        => last.ret = to_utc_iso(localize(last.default_tz,
                                          WallClock(last.text)))


\* C24 (as claimed): whenever the loop of main reaches a conversation, the
\* setup having succeeded for both stores, the tables exist in each store as
\* its connection sees it
C24_SchemaSurvivesRollback ==
    pc = "sqlite_chat" => \A s \in Stores : working[s].schema


\* what the second store holds durably, the first holds durably too: a row
\* for each slug, and each message at least as often
Behind(d2, d1) ==
    /\ \A r \in d2.chats : \E q \in d1.chats : q.slug = r.slug
    /\ \A r \in d2.messages :
          Copies(d1, AbsMessage(d2, r)) >= Copies(d2, AbsMessage(d2, r))

\* a step that changes what a store holds durably, in a run that started
\* from equivalent stores, leaves PostgreSQL behind SQLite
C25_Step ==
    committed' # committed
        => \/ Behind(committed'.pg, committed'.sqlite)
           \/ ~Equivalent(started'.sqlite, started'.pg)

\* C25: in a run that started from equivalent stores every commit, the
\* first one made on empty stores, leaves every conversation committed in
\* the PostgreSQL store, with its messages, committed in the SQLite store
\* too; between commits nothing durable changes
C25_PgNeverAheadOfSqlite == [][C25_Step]_vars

\* the run was interrupted, or its PostgreSQL commit failed, after the SQLite
\* commit of a conversation: SQLite holds a conversation PostgreSQL lacks,
\* an earlier conversation being committed in both
C25_Witness ==
    /\ Equivalent(started.sqlite, started.pg)
    /\ faults > 0
    /\ committed.pg.chats # {}
    /\ \E q \in committed.sqlite.chats :
          \A r \in committed.pg.chats : r.slug # q.slug


\* C26: a conversation that follows one whose processing failed starts with
\* no pending row of it in either store, so no later commit makes a write of
\* the failed conversation durable
C26_FailedWritesNotCarriedOver ==
    (/\ pc = "sqlite_chat"
     /\ idx >= 2
     /\ ~(outcomes[idx - 1].sqlite /\ outcomes[idx - 1].pg))
        => \A s \in Stores : RowsOf(working[s]) = RowsOf(committed[s])

\* the second conversation starts after the first, written to SQLite, was
\* ended by the KeyError of the PostgreSQL writer
C26_Witness ==
    /\ pc = "sqlite_chat"
    /\ idx = 2
    /\ outcomes[1].exc = "KeyError"
    /\ ~outcomes[1].sqlite


\* the message rows a store holds attached to the conversation row of a slug
StoredFor(db, slug) ==
    Cardinality({r \in db.messages :
        \E c \in db.chats : c.id = r.chat_ref_id /\ c.slug = slug})

\* the messages extract_messages returned for the tables of the records of
\* a slug, all of them counted in total_messages
ExtractedFor(slug) ==
    Cardinality({p \in (1..Len(chats)) \X (1..MaxRows + 1) :
        /\ chats[p[1]].slug = slug
        /\ p[2] <= Len(extract_messages(chats[p[1]].table, slug))})

====
